---- MODULE Spec2Model ----
(***************************************************************************)
(* The rank-then-score grading pipeline of app/api/score_essay/route.ts:   *)
(* request validation, the three Text Judge calls (Generator, Ranker,      *)
(* Insertion Judge), the parsing of each response, the clamping of the     *)
(* rank and the score mapping.                                             *)
(***************************************************************************)
EXTENDS Integers, Sequences, FiniteSets, TLC

(***************************************************************************)
(* JavaScript numbers.  A number x is held as the integer x * Den, so that *)
(* the non-integers a JSON text can carry (10.5, 12.5) are values of the   *)
(* model.  Arithmetic on them is IEEE-754 double arithmetic: a quotient or *)
(* a product is rounded to Mant significant bits, ties to even.            *)
(***************************************************************************)
Den == 2

Num(i) == i * Den

IsInteger(x) == x % Den = 0

\* The significand of a double, in bits: a leading 1 and then limbs of LimbBits
\* bits each.
Mant == 53

LimbBits == 13

LimbBase == 2^LimbBits

NLimbs == (Mant - 1) \div LimbBits

RECURSIVE Normalize(_, _, _)
\* a, b and e scaled by powers of two until b <= a < 2b: a/b = (a'/b') * 2^e.
Normalize(a, b, e) ==
    IF a < b THEN Normalize(2 * a, b, e - 1)
    ELSE IF a >= 2 * b THEN Normalize(a, 2 * b, e + 1)
    ELSE [a |-> a, b |-> b, e |-> e]

RECURSIVE QuotLimbs(_, _, _, _)
\* n more limbs of the binary expansion of rem / b (rem < b), and what is left.
QuotLimbs(rem, b, n, acc) ==
    IF n = 0 THEN [m |-> acc, rem |-> rem]
    ELSE QuotLimbs((rem * LimbBase) % b, b, n - 1,
                   Append(acc, (rem * LimbBase) \div b))

RECURSIVE IncLimbs(_)
\* The limbs plus one in the last place; a carry out of the top leaves zeros.
IncLimbs(m) ==
    IF m = <<>> THEN <<>>
    ELSE LET n == Len(m) IN
         IF m[n] + 1 < LimbBase THEN [m EXCEPT ![n] = m[n] + 1]
         ELSE IncLimbs(SubSeq(m, 1, n - 1)) \o <<0>>

\* A double: 1.m (binary, m the limbs after the leading 1) times 2^e.  Rounding
\* up may carry out of the significand, which gives 1.0 times 2^(e+1).
Rounded(m, e, up) ==
    IF ~up THEN [m |-> m, e |-> e]
    ELSE IF \A i \in 1..Len(m) : m[i] = LimbBase - 1
         THEN [m |-> IncLimbs(m), e |-> e + 1]
         ELSE [m |-> IncLimbs(m), e |-> e]

\* The double nearest to a / b (a > 0, b > 0), ties to even.
FDiv(a, b) ==
    LET nz == Normalize(a, b, 0)
        q  == QuotLimbs(nz.a - nz.b, nz.b, NLimbs, <<>>)
        up == \/ 2 * q.rem > nz.b
              \/ 2 * q.rem = nz.b /\ q.m[NLimbs] % 2 = 1
    IN Rounded(q.m, nz.e, up)

RECURSIVE MulLimbs(_, _, _)
\* <<top>> \o limbs of (1.m) * k: the limbs times k, the carry running up into
\* the top digit, which also holds the leading 1 times k.
MulLimbs(m, k, carry) ==
    IF m = <<>> THEN <<k + carry>>
    ELSE LET n == Len(m)
             t == m[n] * k + carry
         IN MulLimbs(SubSeq(m, 1, n - 1), k, t \div LimbBase) \o <<t % LimbBase>>

RECURSIVE BitLen(_)
BitLen(n) == IF n = 0 THEN 0 ELSE 1 + BitLen(n \div 2)

\* The double nearest to x * k for a small positive integer k, ties to even: the
\* exact product is shifted right until its top digit is the leading 1 again,
\* and the bits shifted out decide the rounding.
FMul(x, k) ==
    LET p       == MulLimbs(x.m, k, 0)
        extra   == BitLen(p[1]) - 1
        sh      == 2^extra
        up2     == LimbBase \div sh
        kept    == [i \in 1..NLimbs |-> (p[i] % sh) * up2 + p[i + 1] \div sh]
        dropped == p[NLimbs + 1] % sh
        up      == /\ extra > 0
                   /\ \/ 2 * dropped > sh
                      \/ 2 * dropped = sh /\ kept[NLimbs] % 2 = 1
    IN Rounded(kept, x.e + extra, up)

\* Math.round of a positive double below 2^(2 * LimbBits): the nearest integer,
\* a tie going up.  The integer part and the bit after it lie in the first two
\* limbs.
MathRoundDouble(x) ==
    LET hi    == ((LimbBase + x.m[1]) * LimbBase) + x.m[2]
        shift == 2 * LimbBits - x.e
        whole == IF x.e < 0 THEN 0 ELSE hi \div (2^shift)
        half  == IF x.e < -1 THEN 0 ELSE (hi \div (2^(shift - 1))) % 2
    IN whole + half

\* Math.round of minus a positive double: the nearest integer, a tie going up
\* (towards zero).
MathRoundNegDouble(x) ==
    LET hi    == ((LimbBase + x.m[1]) * LimbBase) + x.m[2]
        shift == 2 * LimbBits - x.e
        whole == IF x.e < 0 THEN 0 ELSE hi \div (2^shift)
        half  == IF x.e < -1 THEN 0 ELSE (hi \div (2^(shift - 1))) % 2
        rest  == \/ x.e >= -1 /\ hi % (2^(shift - 1)) # 0
                 \/ \E i \in 3..NLimbs : x.m[i] # 0
    IN -(whole + (IF half = 1 /\ rest THEN 1 ELSE 0))

\* Math.round((a / b) * k) for integers a, b > 0 and k > 0, as the code computes
\* it in doubles: the quotient is rounded, then the product, then Math.round.
RoundScaled(a, b, k) ==
    IF a = 0 THEN 0
    ELSE IF a > 0 THEN MathRoundDouble(FMul(FDiv(a, b), k))
    ELSE MathRoundNegDouble(FMul(FDiv(-a, b), k))

(***************************************************************************)
(* Text.  A text (a request string, a Text Judge completion) is a sequence *)
(* of tokens: punctuation, the double quote, white space, the markdown     *)
(* fence (three backticks), words and number literals.  The characters of  *)
(* a string literal are tokens like any other, so a regular expression     *)
(* applied to the text also sees the inside of strings.                    *)
(***************************************************************************)
P(c) == [k |-> "p", s |-> c, n |-> 0]

Q == [k |-> "q", s |-> "quote", n |-> 0]

WS == [k |-> "ws", s |-> " ", n |-> 0]

FENCE == [k |-> "fence", s |-> "fence", n |-> 0]

W(w) == [k |-> "w", s |-> w, n |-> 0]

NUM(n) == [k |-> "num", s |-> "", n |-> n]

IsP(tok, c) == tok.k = "p" /\ tok.s = c

Min(S) == CHOOSE x \in S : \A y \in S : x <= y

Max(S) == -Min({-x : x \in S})

\* String.prototype.trim: the text without its leading and trailing white space.
Trim(txt) ==
    LET solid == {i \in 1..Len(txt) : txt[i].k # "ws"}
    IN IF solid = {} THEN <<>> ELSE SubSeq(txt, Min(solid), Max(solid))

(***************************************************************************)
(* JavaScript values, as JSON.parse makes them: every value is a record of *)
(* the same shape, t its type, n the number (or 1 for true), s the string  *)
(* and a the elements of an array or the members of an object.             *)
(***************************************************************************)
JUndefined == [t |-> "undefined", n |-> 0, s |-> <<>>, a |-> <<>>]

JNull == [t |-> "null", n |-> 0, s |-> <<>>, a |-> <<>>]

JBool(b) == [t |-> "boolean", n |-> IF b THEN 1 ELSE 0, s |-> <<>>, a |-> <<>>]

JNum(n) == [t |-> "number", n |-> n, s |-> <<>>, a |-> <<>>]

JNaN == [t |-> "NaN", n |-> 0, s |-> <<>>, a |-> <<>>]

JStr(txt) == [t |-> "string", n |-> 0, s |-> txt, a |-> <<>>]

JArr(elems) == [t |-> "array", n |-> 0, s |-> <<>>, a |-> elems]

\* members: a sequence of [key |-> text, val |-> value].
JObj(members) == [t |-> "object", n |-> 0, s |-> <<>>, a |-> members]

\* typeof v
TypeOf(v) ==
    CASE v.t = "NaN" -> "number"
      [] v.t \in {"null", "array"} -> "object"
      [] OTHER -> v.t

\* ToBoolean(v): what !v, v || d and if (v) test.
Truthy(v) ==
    CASE v.t \in {"undefined", "null", "NaN"} -> FALSE
      [] v.t \in {"boolean", "number"} -> v.n # 0
      [] v.t = "string" -> v.s # <<>>
      [] OTHER -> TRUE

\* v[name] of a value that is neither null nor undefined: the last member of
\* that name of an object, undefined otherwise.
Get(v, name) ==
    LET hits == {i \in 1..Len(v.a) : v.a[i].key = <<W(name)>>}
    IN IF v.t = "object" /\ hits # {} THEN v.a[Max(hits)].val ELSE JUndefined

\* Reading a property of null or undefined throws a TypeError.
Throws(v) == v.t \in {"undefined", "null"}

\* ToNumber(v), for the comparisons and the arithmetic on sampleCount.
ToNumber(v) ==
    CASE v.t \in {"number", "boolean"} -> JNum(v.n)
      [] v.t = "null" -> JNum(0)
      [] v.t = "string" ->
            LET body == Trim(v.s) IN
            IF body = <<>> THEN JNum(0)
            ELSE IF Len(body) = 1 /\ body[1].k = "num" THEN JNum(body[1].n)
            ELSE JNaN
      [] OTHER -> JNaN

(***************************************************************************)
(* JSON.parse.                                                             *)
(***************************************************************************)
RECURSIVE SkipWs(_, _)
\* The first position from i on that holds no white space (Len + 1: none).
SkipWs(txt, i) ==
    IF i <= Len(txt) /\ txt[i].k = "ws" THEN SkipWs(txt, i + 1) ELSE i

ParseFail == [ok |-> FALSE, v |-> JUndefined, i |-> 0]

RECURSIVE ParseValue(_, _)
RECURSIVE ParseElements(_, _, _)
RECURSIVE ParseMembers(_, _, _)

\* The value that starts at position i (white space skipped) and the position
\* after it.
ParseValue(txt, i) ==
    LET j == SkipWs(txt, i) IN
    IF j > Len(txt) THEN ParseFail
    ELSE LET tok == txt[j] IN
         CASE tok.k = "num" -> [ok |-> TRUE, v |-> JNum(tok.n), i |-> j + 1]
           [] tok.k = "q" ->
                LET close == {c \in (j + 1)..Len(txt) : txt[c].k = "q"} IN
                IF close = {} THEN ParseFail
                ELSE [ok |-> TRUE, v |-> JStr(SubSeq(txt, j + 1, Min(close) - 1)),
                      i |-> Min(close) + 1]
           [] tok.k = "w" /\ tok.s = "true" -> [ok |-> TRUE, v |-> JBool(TRUE), i |-> j + 1]
           [] tok.k = "w" /\ tok.s = "false" -> [ok |-> TRUE, v |-> JBool(FALSE), i |-> j + 1]
           [] tok.k = "w" /\ tok.s = "null" -> [ok |-> TRUE, v |-> JNull, i |-> j + 1]
           [] IsP(tok, "[") ->
                LET k == SkipWs(txt, j + 1) IN
                IF k <= Len(txt) /\ IsP(txt[k], "]")
                THEN [ok |-> TRUE, v |-> JArr(<<>>), i |-> k + 1]
                ELSE ParseElements(txt, j + 1, <<>>)
           [] IsP(tok, "{") ->
                LET k == SkipWs(txt, j + 1) IN
                IF k <= Len(txt) /\ IsP(txt[k], "}")
                THEN [ok |-> TRUE, v |-> JObj(<<>>), i |-> k + 1]
                ELSE ParseMembers(txt, j + 1, <<>>)
           [] OTHER -> ParseFail

\* The elements of an array from position i on, after those of acc: a value,
\* then a comma and more, or the closing bracket.
ParseElements(txt, i, acc) ==
    LET e == ParseValue(txt, i)
        j == SkipWs(txt, e.i)
    IN IF ~e.ok \/ j > Len(txt) THEN ParseFail
       ELSE IF IsP(txt[j], ",") THEN ParseElements(txt, j + 1, Append(acc, e.v))
       ELSE IF IsP(txt[j], "]")
            THEN [ok |-> TRUE, v |-> JArr(Append(acc, e.v)), i |-> j + 1]
       ELSE ParseFail

\* The members of an object from position i on: a string, a colon, a value,
\* then a comma and more, or the closing brace.
ParseMembers(txt, i, acc) ==
    LET key   == ParseValue(txt, i)
        colon == SkipWs(txt, key.i)
    IN IF ~key.ok \/ key.v.t # "string" \/ colon > Len(txt) THEN ParseFail
       ELSE IF ~IsP(txt[colon], ":") THEN ParseFail
       ELSE LET e   == ParseValue(txt, colon + 1)
                j   == SkipWs(txt, e.i)
                mem == [key |-> key.v.s, val |-> e.v]
            IN IF ~e.ok \/ j > Len(txt) THEN ParseFail
               ELSE IF IsP(txt[j], ",") THEN ParseMembers(txt, j + 1, Append(acc, mem))
               ELSE IF IsP(txt[j], "}")
                    THEN [ok |-> TRUE, v |-> JObj(Append(acc, mem)), i |-> j + 1]
               ELSE ParseFail

\* JSON.parse(txt): ok is FALSE where it throws a SyntaxError.
JSONParse(txt) ==
    LET r == ParseValue(txt, 1) IN
    IF r.ok /\ SkipWs(txt, r.i) > Len(txt) THEN [ok |-> TRUE, v |-> r.v]
    ELSE [ok |-> FALSE, v |-> JUndefined]

\* x === y.  Two objects (or arrays) made by JSON.parse are never the same one.
StrictEq(x, y) ==
    /\ x.t = y.t
    /\ CASE x.t \in {"number", "boolean"} -> x.n = y.n
         [] x.t = "string" -> x.s = y.s
         [] x.t \in {"undefined", "null"} -> TRUE
         [] OTHER -> FALSE

\* a < b on numbers: false when either is NaN.
JsLess(a, b) == a.t = "number" /\ b.t = "number" /\ a.n < b.n

\* Math.min(a, b) and Math.max(a, b) on numbers: NaN when either is NaN.
MathMin(a, b) ==
    IF a.t = "NaN" \/ b.t = "NaN" THEN JNaN ELSE JNum(IF a.n <= b.n THEN a.n ELSE b.n)

MathMax(a, b) ==
    IF a.t = "NaN" \/ b.t = "NaN" THEN JNaN ELSE JNum(IF a.n >= b.n THEN a.n ELSE b.n)

\* Math.round((a / b) * k) on numbers, the result a number of the model (an
\* integer times Den); NaN when either is NaN or the quotient is 0 / 0.  The
\* divisors of the model are positive.
JsRoundRatio(a, b, k) ==
    IF a.t = "NaN" \/ b.t = "NaN" \/ b.n <= 0 THEN JNaN
    ELSE JNum(Num(RoundScaled(a.n, b.n, k)))

(***************************************************************************)
(* The text handling of the handler: the regular expressions of            *)
(* route.ts:152-160.                                                       *)
(***************************************************************************)
\* The tokens of txt at the positions of keep, in order.
KeepAt(txt, keep) ==
    LET tagged == [i \in 1..Len(txt) |-> [pos |-> i, tok |-> txt[i]]]
        kept   == SelectSeq(tagged, LAMBDA e : e.pos \in keep)
    IN [i \in 1..Len(kept) |-> kept[i].tok]

\* text.match(/\{[\s\S]*\}/): from the first opening brace to the last closing
\* brace after it; the whole text when there is no such match.
ExtractJson(txt) ==
    LET opens  == {i \in 1..Len(txt) : IsP(txt[i], "{")}
        closes == {j \in 1..Len(txt) : IsP(txt[j], "}") /\ opens # {} /\ j > Min(opens)}
    IN IF opens = {} \/ closes = {} THEN txt
       ELSE SubSeq(txt, Min(opens), Max(closes))

\* The positions of the white space that directly follows position i.
WsRun(txt, i) ==
    {j \in (i + 1)..Len(txt) : \A m \in (i + 1)..j : txt[m].k = "ws"}

\* .replace(/```json\s*/g, ''): each fence directly followed by the word json
\* goes, with the white space after it.
StripJsonFences(txt) ==
    LET starts == {i \in 1..(Len(txt) - 1) : txt[i].k = "fence" /\ txt[i + 1] = W("json")}
        gone   == UNION {{i, i + 1} \cup WsRun(txt, i + 1) : i \in starts}
    IN KeepAt(txt, (1..Len(txt)) \ gone)

\* .replace(/```\s*/g, ''): each fence goes, with the white space after it.
StripFences(txt) ==
    LET starts == {i \in 1..Len(txt) : txt[i].k = "fence"}
        gone   == UNION {{i} \cup WsRun(txt, i) : i \in starts}
    IN KeepAt(txt, (1..Len(txt)) \ gone)

\* .replace(/,(\s*[}\]])/g, '$1'): each comma that only white space separates
\* from a closing brace or bracket goes.
StripTrailingCommas(txt) ==
    LET gone == {i \in 1..Len(txt) :
                    /\ IsP(txt[i], ",")
                    /\ LET j == SkipWs(txt, i + 1) IN
                       j <= Len(txt) /\ (IsP(txt[j], "}") \/ IsP(txt[j], "]"))}
    IN KeepAt(txt, (1..Len(txt)) \ gone)

\* Lines 152-160: extract, then clean.
Sanitize(txt) == StripTrailingCommas(StripFences(StripJsonFences(ExtractJson(txt))))

(***************************************************************************)
(* The completions the Text Judge may return, built as texts.              *)
(***************************************************************************)
\* The longest sample list a completion of the model carries.
MaxSamples == 2

Str(content) == <<Q>> \o content \o <<Q>>

KV(name, valueText) == Str(<<W(name)>>) \o <<P(":"), WS>> \o valueText

RECURSIVE Join(_)
\* The texts of parts, a comma between each two.
Join(parts) ==
    IF parts = <<>> THEN <<>>
    ELSE IF Len(parts) = 1 THEN parts[1]
    ELSE parts[1] \o <<P(","), WS>> \o Join(Tail(parts))

ObjText(members) == <<P("{")>> \o Join(members) \o <<P("}")>>

ArrText(elems) == <<P("[")>> \o Join(elems) \o <<P("]")>>

\* The essay of sample id: words, a digit, a comma.
Essay(id) == <<W("essay"), WS, NUM(Num(id)), P(","), WS, W("end")>>

\* {"id": id, "targetScore": .., "content": ".."}, the shape the Generator's
\* prompt asks for (rank-score-prompts.ts:27-34).
SampleText(id) ==
    ObjText(<<KV("id", <<NUM(Num(id))>>),
              KV("targetScore", <<NUM(Num(id))>>),
              KV("content", Str(Essay(id)))>>)

\* An essay that quotes a piece of code: a comma, a space, a closing brace.
CodeEssay == <<W("write"), WS, W("a"), P(","), WS, P("}"), WS, W("last")>>

\* A one-sample completion whose essay is CodeEssay.
CodeSampleText ==
    ObjText(<<KV("samples",
                 ArrText(<<ObjText(<<KV("id", <<NUM(Num(1))>>),
                                     KV("targetScore", <<NUM(Num(1))>>),
                                     KV("content", Str(CodeEssay))>>)>>))>>)

SamplesText(ids) ==
    ObjText(<<KV("samples", ArrText([i \in 1..Len(ids) |-> SampleText(ids[i])]))>>)

\* The id lists of the Generator's completions: 1..n for each n up to
\* MaxSamples (the empty list too), and a list that repeats an id.
SampleIdLists ==
    {[i \in 1..n |-> i] : n \in 0..MaxSamples} \cup {[i \in 1..MaxSamples |-> 1]}

\* The text wrapped in a markdown fence.
Fenced(txt) == <<FENCE, W("json"), WS>> \o txt \o <<WS, FENCE>>

\* The text with a comma put before its last token (a closing brace).
WithTrailingComma(txt) ==
    SubSeq(txt, 1, Len(txt) - 1) \o <<P(","), WS, txt[Len(txt)]>>

\* The text with prose around it.
InProse(txt) == <<W("Here"), WS, W("it"), WS, W("is"), P(":"), WS>> \o txt \o <<WS, W("Done")>>

FullIds == [i \in 1..MaxSamples |-> i]

GeneratorTexts ==
    {SamplesText(ids) : ids \in SampleIdLists}
    \cup {Fenced(SamplesText(FullIds)),
          WithTrailingComma(SamplesText(FullIds)),
          InProse(SamplesText(FullIds)),
          CodeSampleText,
          Fenced(CodeSampleText),
          ObjText(<<KV("samples", <<NUM(Num(5))>>)>>),
          ObjText(<<KV("essays", ArrText(<<SampleText(1)>>))>>),
          ObjText(<<KV("samples", ArrText(<<<<W("null")>>>>))>>),
          <<W("null")>>,
          <<W("Sorry"), WS, W("no"), WS, W("essays")>>,
          <<P("{")>> \o KV("samples", <<P("[")>>)}

\* The id lists of the Ranker's completions: every list of at most MaxSamples
\* ids out of 1..MaxSamples + 1, so permutations, lists that repeat or miss an
\* id and lists that name an id no sample has.
RankedIdLists ==
    UNION {[1..n -> 1..(MaxSamples + 1)] : n \in 0..MaxSamples}

RankedText(ids) ==
    ObjText(<<KV("rankedIds", ArrText([i \in 1..Len(ids) |-> <<NUM(Num(ids[i]))>>]))>>)

RankerTexts ==
    {RankedText(ids) : ids \in RankedIdLists}
    \cup {Fenced(RankedText(FullIds)),
          WithTrailingComma(RankedText(FullIds)),
          InProse(RankedText(FullIds)),
          ObjText(<<KV("rankedIds", Str(<<NUM(Num(1))>>))>>),
          ObjText(<<KV("order", ArrText(<<<<NUM(Num(1))>>>>))>>),
          <<W("null")>>,
          <<W("Sorry")>>}

\* The ranks of the Insertion Judge's completions: below, in and above every
\* range 1..N, and one that is no integer.
RawRanks ==
    {Num(-3), Num(0), Num(1), Num(12) + 1, Num(25), Num(29), Num(50), Num(51), Num(999)}

InsertText(rank, reasoningText) ==
    ObjText(<<KV("rank", <<NUM(rank)>>), KV("reasoning", reasoningText)>>)

\* The reasoning of a completion: a string, an empty string, a number.
ReasoningTexts == {Str(<<W("fair")>>), Str(<<>>), <<NUM(Num(7))>>}

InsertTexts ==
    {InsertText(r, why) : r \in RawRanks, why \in ReasoningTexts}
    \cup {ObjText(<<KV("rank", <<NUM(r)>>)>>) : r \in RawRanks}
    \cup {Fenced(InsertText(Num(25), Str(<<W("fair")>>))),
          WithTrailingComma(InsertText(Num(25), Str(<<W("fair")>>))),
          InProse(InsertText(Num(25), Str(<<W("fair")>>))),
          ObjText(<<KV("rank", Str(<<NUM(Num(25))>>)), KV("reasoning", Str(<<W("fair")>>))>>),
          ObjText(<<KV("reasoning", Str(<<W("fair")>>))>>),
          <<W("null")>>,
          <<W("Sorry")>>}

(***************************************************************************)
(* Requests.  The body of a request is any JSON: each required field may   *)
(* be absent, empty, blank, a string or not a string, and sampleCount may  *)
(* be absent, a number in or out of range, an integer or not, or a string. *)
(***************************************************************************)
FieldValues ==
    {JUndefined, JStr(<<>>), JStr(<<WS>>), JStr(<<WS, W("text"), WS>>), JNum(Num(7))}

SampleCountValues ==
    {JUndefined, JNum(0), JNum(Num(-3)), JNum(Num(5)), JNum(Num(10)), JNum(Num(10) + 1),
     JNum(Num(20)), JNum(Num(50)), JNum(Num(100)), JNum(Num(150)),
     JStr(<<W("abc")>>), JStr(<<NUM(Num(20))>>)}

\* The object a JSON body makes: an absent field is no member of it.
DataObj(topic, content, rubric, sampleCount) ==
    JObj(SelectSeq(<<[key |-> <<W("topic")>>, val |-> topic],
                     [key |-> <<W("content")>>, val |-> content],
                     [key |-> <<W("rubric")>>, val |-> rubric],
                     [key |-> <<W("sampleCount")>>, val |-> sampleCount]>>,
                   LAMBDA m : m.val.t # "undefined"))

\* bodyOk: whether req.json() returns (it throws on a body that is no JSON).
Requests ==
    {[bodyOk |-> FALSE, data |-> JUndefined], [bodyOk |-> TRUE, data |-> JNull]}
    \cup {[bodyOk |-> TRUE, data |-> DataObj(t, c, r, n)] :
            t \in FieldValues, c \in FieldValues, r \in FieldValues, n \in SampleCountValues}

(***************************************************************************)
(* Responses (response-helper).                                            *)
(***************************************************************************)
\* details: the missing fields, <<>> standing for undefined.
errorResponse(error, errorCode, details, statusCode) ==
    [status |-> statusCode,
     body |-> [success |-> FALSE, error |-> error, error_code |-> errorCode,
               details |-> details]]

successResponse(data) ==
    [status |-> 200, body |-> [success |-> TRUE, message |-> "ok", data |-> data]]

\* No response sent yet.
NoResponse == [status |-> 0, body |-> [success |-> FALSE]]

RequiredFields == <<"topic", "content", "rubric">>

validateJsonFields(data, requiredFields) ==
    IF ~Truthy(data)
    THEN [isValid |-> FALSE,
          response |-> errorResponse("request body must be JSON", "INVALID_INPUT", <<>>, 400)]
    ELSE LET missingFields ==
                 SelectSeq(requiredFields,
                           LAMBDA f : \/ ~Truthy(Get(data, f))
                                      \/ /\ TypeOf(Get(data, f)) = "string"
                                         /\ Trim(Get(data, f).s) = <<>>)
         IN IF Len(missingFields) > 0
            THEN [isValid |-> FALSE,
                  response |-> errorResponse("missing required fields", "MISSING_FIELD",
                                             missingFields, 400)]
            ELSE [isValid |-> TRUE, response |-> NoResponse]

(***************************************************************************)
(* The Text Judge (generateText).  What the remote call does is free: it   *)
(* throws, or it answers with a text, which may be empty.                  *)
(***************************************************************************)
RemoteOutcomes(texts) ==
    {[kind |-> "throw", text |-> <<>>, message |-> "quota exceeded"],
     [kind |-> "throw", text |-> <<>>, message |-> ""],
     [kind |-> "response", text |-> <<>>, message |-> ""]}
    \cup {[kind |-> "response", text |-> t, message |-> ""] : t \in texts}

\* generateText with the catch of line 205 returning error.message alone: an
\* exception without a message gives a result without an error.
generateText_MessageOnly(remote) ==
    IF remote.kind = "throw"
    THEN [success |-> FALSE, text |-> <<>>, error |-> remote.message]
    ELSE IF remote.text = <<>>
         THEN [success |-> FALSE, text |-> <<>>, error |-> "no generated text"]
         ELSE [success |-> TRUE, text |-> remote.text, error |-> ""]

\* generateText: every outcome is a value {success, text?, error?}; text <<>> and
\* error "" stand for an absent field.
generateText(remote) ==
    IF remote.kind = "throw"
    THEN [success |-> FALSE, text |-> <<>>,
          error |-> IF remote.message # "" THEN remote.message ELSE "Error"]
    ELSE IF remote.text = <<>>
         THEN [success |-> FALSE, text |-> <<>>, error |-> "no generated text"]
         ELSE [success |-> TRUE, text |-> remote.text, error |-> ""]

(***************************************************************************)
(* The client of the Text Judge.  part_005 keeps two module-level handles, *)
(* vertexAI and model, both null when the module is loaded (lines 17-18);  *)
(* initializeVertexAI builds them at the first call that finds vertexAI    *)
(* null.  What the platform does to that call is free: the credentials are *)
(* refused (lines 38-93), the constructor throws (lines 111-117),          *)
(* getGenerativeModel throws (line 118), or nothing throws.                *)
(***************************************************************************)
InitOutcomes ==
    {"returns", "credentials throw", "constructor throws", "getGenerativeModel throws"}

\* initializeVertexAI (lines 20-145) on the handles it finds: the handles it
\* leaves, and whether it threw.  Line 112 assigns vertexAI before line 118
\* builds the model, and line 118 stands in no try block.
initializeVertexAI(handles, env) ==
    IF handles.vertexAI # "null"
    THEN [vertexAI |-> handles.vertexAI, model |-> handles.model,
          threw |-> FALSE, message |-> ""]
    ELSE CASE env = "credentials throw" ->
                [vertexAI |-> "null", model |-> handles.model,
                 threw |-> TRUE, message |-> "bad service account credentials"]
           [] env = "constructor throws" ->
                [vertexAI |-> "null", model |-> handles.model,
                 threw |-> TRUE, message |-> "cannot construct the client"]
           [] env = "getGenerativeModel throws" ->
                [vertexAI |-> "VertexAI", model |-> handles.model,
                 threw |-> TRUE, message |-> "cannot build the model"]
           [] OTHER ->
                [vertexAI |-> "VertexAI", model |-> "GenerativeModel",
                 threw |-> FALSE, message |-> ""]

\* No generateText call is in flight.
NoCall == [kind |-> "none", text |-> <<>>, message |-> ""]

\* Lines 164-172: generateText up to its await.  initializeVertexAI has thrown,
\* or model.generateContent is read from a null model (a TypeError), or the
\* remote call is made and pending.
Started(handles, env) ==
    LET init == initializeVertexAI(handles, env) IN
    IF init.threw THEN [kind |-> "throw", text |-> <<>>, message |-> init.message]
    ELSE IF init.model = "null"
    THEN [kind |-> "throw", text |-> <<>>, message |-> "cannot read properties of null"]
    ELSE [kind |-> "pending", text |-> <<>>, message |-> ""]

\* What the try block of generateText meets: the exception thrown before the
\* await, or what the remote call does.
Met(started, remote) == IF started.kind = "throw" THEN started ELSE remote

(***************************************************************************)
(* The handler POST of score_essay/route.ts, cut at its await points.      *)
(***************************************************************************)
DefaultSampleCount == 50

MinSampleCount == 10

MaxSampleCount == 100

MaxScore == 25

PercentileScale == 100

\* error || fallback (lines 142, 201, 258): the fallback for an empty message.
OrDefault(error, fallback) == IF error # "" THEN error ELSE fallback

\* The catch of line 331: any exception not caught before ends the request.
Caught(message) == errorResponse(message, "", <<>>, 500)

\* Validate with the white space kept: a field counts as given when it is
\* truthy, and no value is trimmed before it is tested.
Validate_Untrimmed(req) ==
    IF ~req.bodyOk THEN Caught("Unexpected token in JSON")
    ELSE IF ~Truthy(req.data)
    THEN errorResponse("request body must be JSON", "INVALID_INPUT", <<>>, 400)
    ELSE IF \E f \in {"topic", "content", "rubric"} : ~Truthy(Get(req.data, f))
    THEN errorResponse("missing required fields", "MISSING_FIELD", <<>>, 400)
    ELSE IF \E f \in {"topic", "content", "rubric"} : TypeOf(Get(req.data, f)) # "string"
    THEN Caught("trim is not a function")
    ELSE LET sampleCount == IF Truthy(Get(req.data, "sampleCount"))
                            THEN Get(req.data, "sampleCount")
                            ELSE JNum(Num(DefaultSampleCount))
         IN IF \/ JsLess(ToNumber(sampleCount), JNum(Num(MinSampleCount)))
               \/ JsLess(JNum(Num(MaxSampleCount)), ToNumber(sampleCount))
            THEN errorResponse("sampleCount must be 10-100", "", <<>>, 400)
            ELSE NoResponse

\* Lines 103-123: the response that ends the request before any judge call,
\* NoResponse when the request goes on to the Generator.
Validate(req) ==
    IF ~req.bodyOk THEN Caught("Unexpected token in JSON")
    ELSE LET data       == req.data
             validation == validateJsonFields(data, RequiredFields)
         IN IF ~validation.isValid THEN validation.response
            ELSE IF \E f \in {"topic", "content", "rubric"} : TypeOf(Get(data, f)) # "string"
                 THEN Caught("trim is not a function")
            ELSE LET topic       == Trim(Get(data, "topic").s)
                     content     == Trim(Get(data, "content").s)
                     rubric      == Trim(Get(data, "rubric").s)
                     sampleCount == IF Truthy(Get(data, "sampleCount"))
                                    THEN Get(data, "sampleCount")
                                    ELSE JNum(Num(DefaultSampleCount))
                 IN IF topic = <<>> \/ content = <<>> \/ rubric = <<>>
                    THEN errorResponse("topic, content or rubric is empty", "", <<>>, 400)
                    ELSE IF \/ JsLess(ToNumber(sampleCount), JNum(Num(MinSampleCount)))
                            \/ JsLess(JNum(Num(MaxSampleCount)), ToNumber(sampleCount))
                         THEN errorResponse("sampleCount must be 10-100", "", <<>>, 400)
                    ELSE NoResponse

\* Line 115.
SampleCountOf(req) ==
    IF Truthy(Get(req.data, "sampleCount")) THEN Get(req.data, "sampleCount")
    ELSE JNum(Num(DefaultSampleCount))

\* Lines 139-147, 198-206, 255-263: a judge result the stage cannot use.
JudgeFailed(result) == ~result.success \/ result.text = <<>>

\* Lines 149-187: the samples of the Generator's text; ok is FALSE where the
\* try block throws (JSON.parse, a missing or empty samples array).
ParseSamples(text) ==
    LET parsed == JSONParse(Sanitize(text))
        list   == Get(parsed.v, "samples")
    IN IF /\ parsed.ok
          /\ ~Throws(parsed.v)
          /\ Truthy(list)
          /\ list.t = "array"
          /\ Len(list.a) # 0
       THEN [ok |-> TRUE, samples |-> list.a]
       ELSE [ok |-> FALSE, samples |-> <<>>]

\* Lines 208-231: the rankedIds of the Ranker's text.
ParseRankedIds(text) ==
    LET parsed == JSONParse(ExtractJson(text))
        list   == Get(parsed.v, "rankedIds")
    IN IF parsed.ok /\ ~Throws(parsed.v) /\ Truthy(list) /\ list.t = "array"
       THEN [ok |-> TRUE, rankedIds |-> list.a]
       ELSE [ok |-> FALSE, rankedIds |-> <<>>]

\* samples.find((s) => s.id === id): the first sample of that id.
FindSample(samples, id) ==
    LET hits == {i \in 1..Len(samples) : StrictEq(Get(samples[i], "id"), id)}
    IN IF hits = {} THEN JUndefined ELSE samples[Min(hits)]

\* RankedSamples with the content read by place instead of by id: the i-th
\* entry carries the content of the i-th generated sample.
RankedSamples_ByPlace(samples, rankedIds) ==
    IF \E i \in 1..Len(rankedIds) : FindSample(samples, rankedIds[i]).t = "undefined"
    THEN [ok |-> FALSE, list |-> <<>>]
    ELSE [ok |-> TRUE,
          list |-> [i \in 1..Len(rankedIds) |->
                      [id      |-> Get(FindSample(samples, rankedIds[i]), "id"),
                       content |-> IF i <= Len(samples) THEN Get(samples[i], "content")
                                   ELSE JUndefined,
                       rank    |-> i]]]

\* RankedSamples without the throw of line 237: an id that has no sample gives
\* an entry without an id and without a content.
RankedSamples_Unchecked(samples, rankedIds) ==
    [ok |-> TRUE,
     list |-> [i \in 1..Len(rankedIds) |->
                 [id      |-> Get(FindSample(samples, rankedIds[i]), "id"),
                  content |-> Get(FindSample(samples, rankedIds[i]), "content"),
                  rank    |-> i]]]

\* Lines 234-244: the samples in the Ranker's order, each with its position;
\* ok is FALSE where an id has no sample (line 237 throws).
RankedSamples(samples, rankedIds) ==
    IF \E i \in 1..Len(rankedIds) : FindSample(samples, rankedIds[i]).t = "undefined"
    THEN [ok |-> FALSE, list |-> <<>>]
    ELSE [ok |-> TRUE,
          list |-> [i \in 1..Len(rankedIds) |->
                      [id      |-> Get(FindSample(samples, rankedIds[i]), "id"),
                       content |-> Get(FindSample(samples, rankedIds[i]), "content"),
                       rank    |-> i]]]

\* ParseInsertion without the test of line 272: a rank that is no number is
\* left at the 0 of line 265 and a reasoning that is no string at the '' of
\* line 266.
ParseInsertion_RankDefaulted(text) ==
    LET parsed    == JSONParse(ExtractJson(text))
        rank      == Get(parsed.v, "rank")
        reasoning == Get(parsed.v, "reasoning")
    IN [ok        |-> TRUE,
        rank      |-> IF parsed.ok /\ rank.t = "number" THEN rank ELSE JNum(0),
        reasoning |-> IF parsed.ok /\ reasoning.t = "string" THEN reasoning ELSE JStr(<<>>)]

\* Lines 265-290: the rank and the reasoning of the Insertion Judge's text; ok
\* is FALSE where the try block throws (JSON.parse, a rank that is no number,
\* and line 280, reasoning.substring, on a reasoning that is no string).
ParseInsertion(text) ==
    LET parsed    == JSONParse(ExtractJson(text))
        rank      == Get(parsed.v, "rank")
        reasoning == IF Truthy(Get(parsed.v, "reasoning"))
                     THEN Get(parsed.v, "reasoning") ELSE JStr(<<>>)
    IN IF /\ parsed.ok
          /\ ~Throws(parsed.v)
          /\ TypeOf(rank) = "number"
          /\ TypeOf(reasoning) = "string"
       THEN [ok |-> TRUE, rank |-> rank, reasoning |-> reasoning]
       ELSE [ok |-> FALSE, rank |-> JNum(0), reasoning |-> JStr(<<>>)]

\* RankOutOfRange with the lower end forgotten.
RankOutOfRange_UpperOnly(rank, sampleCount) == JsLess(ToNumber(sampleCount), rank)

\* Line 297: rank < 1 || rank > sampleCount.
RankOutOfRange(rank, sampleCount) ==
    JsLess(rank, JNum(Num(1))) \/ JsLess(ToNumber(sampleCount), rank)

\* ClampRank without the upper end: only a rank below 1 is raised.
ClampRank_LowerOnly(rank, sampleCount) ==
    IF JsLess(rank, JNum(Num(1))) THEN JNum(Num(1)) ELSE rank

\* Lines 297-302: the rank brought into 1..sampleCount.
ClampRank(rank, sampleCount) ==
    IF RankOutOfRange(rank, sampleCount)
    THEN MathMax(JNum(Num(1)), MathMin(ToNumber(sampleCount), rank))
    ELSE rank

\* Lines 297-298: what console.error writes about the clamping, a line for a
\* rank out of range and nothing otherwise.
ClampLog(rank, sampleCount) ==
    IF RankOutOfRange(rank, sampleCount) THEN <<"rank out of range">> ELSE <<>>

\* ScoreValue with the rank counted from the best essay down.
ScoreValue_Inverted(rank, sampleCount) ==
    JsRoundRatio(JNum(ToNumber(sampleCount).n - rank.n), ToNumber(sampleCount), MaxScore)

\* Line 305: Math.round((rank / sampleCount) * 25).
ScoreValue(rank, sampleCount) == JsRoundRatio(rank, ToNumber(sampleCount), MaxScore)

\* Line 309: Math.round((rank / sampleCount) * 100).
Percentile(rank, sampleCount) == JsRoundRatio(rank, ToNumber(sampleCount), PercentileScale)

\* A number in a template literal.
NumberText(v) == IF v.t = "NaN" THEN <<W("NaN")>> ELSE <<NUM(v.n)>>

\* Line 306: `${scoreValue}/25`.
ScoreString(scoreValue) == JStr(NumberText(scoreValue) \o <<P("/"), NUM(Num(MaxScore))>>)

\* Lines 318-328.
ResponseData(rank, reasoning, sampleCount, samples) ==
    [score        |-> ScoreString(ScoreValue(rank, sampleCount)),
     rank         |-> rank,
     totalSamples |-> sampleCount,
     percentile   |-> Percentile(rank, sampleCount),
     reasoning    |-> reasoning,
     scoreDetails |-> [method |-> "rank-then-score",
                       generatedSamples |-> JNum(Num(Len(samples)))]]

\* A value in a template literal.
ValueText(v) ==
    CASE v.t = "string" -> v.s
      [] v.t = "number" -> <<NUM(v.n)>>
      [] OTHER -> <<W(v.t)>>

RECURSIVE JoinWith(_, _)
\* Array.prototype.join: the texts of parts, sep between each two.
JoinWith(parts, sep) ==
    IF parts = <<>> THEN <<>>
    ELSE IF Len(parts) = 1 THEN parts[1]
    ELSE parts[1] \o sep \o JoinWith(Tail(parts), sep)

\* getInsertRankUserPrompt (rank-score-prompts.ts 142-167): the topic, the
\* rubric, the essay, the number of references, and for each reference its
\* rank label, its ID label and its content.
getInsertRankUserPrompt(topic, rubric, content, ranked) ==
    LET samplesText ==
            JoinWith([i \in 1..Len(ranked) |->
                         <<P("["), W("rank"), P(":"), WS, NUM(Num(ranked[i].rank)), P("]"), WS,
                           P("["), W("ID"), P(":"), WS>> \o ValueText(ranked[i].id)
                         \o <<P("]"), WS>> \o ValueText(ranked[i].content)],
                     <<WS, P("---"), WS>>)
    IN <<W("topic"), P(":"), WS>> \o topic
       \o <<WS, W("rubric"), P(":"), WS>> \o rubric
       \o <<WS, W("essay"), P(":"), WS>> \o content
       \o <<WS, P("---"), WS, W("references"), P(":"), WS, NUM(Num(Len(ranked))), WS>>
       \o samplesText

\* The corpus size the Insertion Judge's system prompt is written for.
PromptCorpusSize == 50

\* getInsertRankPrompt (rank-score-prompts.ts 66-89): the system prompt of the
\* Insertion Judge.  It takes no parameter: it states the number of references
\* (line 69), the corpus the rank is counted in, the worst and the best rank
\* (lines 79 and 88).
getInsertRankPrompt ==
    <<W("references"), P(":"), WS, NUM(Num(PromptCorpusSize)), WS,
      W("among"), P(":"), WS, NUM(Num(PromptCorpusSize)), WS,
      W("worst"), P(":"), WS, NUM(Num(1)), WS,
      W("best"), P(":"), WS, NUM(Num(PromptCorpusSize))>>

\* What a stretch of the handler between two awaits leaves: where the handler
\* stands, the stage it has called ("none": no call), the response it has sent
\* and the value it has stored (for the last stretch, the lines it has logged).
Outcome(at, call, resp, value) ==
    [pc |-> at, call |-> call, response |-> resp, value |-> value]

\* return: the response is sent and the handler ends.
Return(resp, value) == Outcome("responded", "none", resp, value)

\* Lines 102-137: the request is validated; a valid one calls the Generator.
AfterRequest(req) ==
    IF Validate(req) # NoResponse THEN Return(Validate(req), JUndefined)
    ELSE Outcome("generating", "Generator", NoResponse, SampleCountOf(req))

\* AfterGenerate without the returns of lines 141 and 181: a failed call or an
\* unparsable text is logged and the handler goes on with what it has.
AfterGenerate_FallsThrough(generateResult) ==
    LET parsed == ParseSamples(generateResult.text) IN
    IF \E i \in 1..Len(parsed.samples) : Throws(parsed.samples[i])
    THEN Return(Caught("cannot read properties of null"), parsed.samples)
    ELSE Outcome("ranking", "Ranker", NoResponse, parsed.samples)

\* Lines 139-196: the Generator's result is checked and parsed, and the Ranker
\* is called.  getRankSamplesUserPrompt reads s.id of every sample, which throws
\* on a null.
AfterGenerate(generateResult) ==
    LET parsed == ParseSamples(generateResult.text) IN
    IF JudgeFailed(generateResult)
    THEN Return(errorResponse(OrDefault(generateResult.error, "cannot generate the samples"),
                              "", <<>>, 500), <<>>)
    ELSE IF ~parsed.ok
    THEN Return(errorResponse("cannot parse the samples", "", <<>>, 500), <<>>)
    ELSE IF \E i \in 1..Len(parsed.samples) : Throws(parsed.samples[i])
    THEN Return(Caught("cannot read properties of null"), parsed.samples)
    ELSE Outcome("ranking", "Ranker", NoResponse, parsed.samples)

\* AfterRank without the returns of lines 200 and 225: a failed call or an
\* unparsable text is logged and the handler goes on with what it has.
AfterRank_FallsThrough(rankResult, generated) ==
    LET parsed == ParseRankedIds(rankResult.text)
        ranked == RankedSamples(generated, parsed.rankedIds)
    IN IF ~ranked.ok
       THEN Return(Caught("no sample of that id"), <<>>)
       ELSE Outcome("inserting", "Insertion", NoResponse, ranked.list)

\* Lines 198-253: the Ranker's result is checked and parsed, the samples are put
\* in its order, and the Insertion Judge is called.
AfterRank(rankResult, generated) ==
    LET parsed == ParseRankedIds(rankResult.text)
        ranked == RankedSamples(generated, parsed.rankedIds)
    IN IF JudgeFailed(rankResult)
       THEN Return(errorResponse(OrDefault(rankResult.error, "cannot rank the samples"),
                                 "", <<>>, 500), <<>>)
       ELSE IF ~parsed.ok
       THEN Return(errorResponse("cannot parse the ranking", "", <<>>, 500), <<>>)
       ELSE IF ~ranked.ok
       THEN Return(Caught("no sample of that id"), <<>>)
       ELSE Outcome("inserting", "Insertion", NoResponse, ranked.list)

\* AfterInsert with a rank out of range refused instead of clamped.
AfterInsert_RejectsOutOfRange(insertResult, count, generated) ==
    LET parsed == ParseInsertion(insertResult.text)
    IN IF JudgeFailed(insertResult)
       THEN Return(errorResponse(OrDefault(insertResult.error, "cannot place the essay"),
                                 "", <<>>, 500), <<>>)
       ELSE IF ~parsed.ok \/ RankOutOfRange(parsed.rank, count)
       THEN Return(errorResponse("cannot parse the rank", "", <<>>, 500), <<>>)
       ELSE Return(successResponse(ResponseData(parsed.rank, parsed.reasoning, count,
                                                generated)),
                   <<>>)

\* Lines 255-330: the Insertion Judge's result is checked and parsed, the rank
\* is clamped and mapped to the score and the percentile of the response.
AfterInsert(insertResult, count, generated) ==
    LET parsed == ParseInsertion(insertResult.text)
        rank   == ClampRank(parsed.rank, count)
    IN IF JudgeFailed(insertResult)
       THEN Return(errorResponse(OrDefault(insertResult.error, "cannot place the essay"),
                                 "", <<>>, 500), <<>>)
       ELSE IF ~parsed.ok
       THEN Return(errorResponse("cannot parse the rank", "", <<>>, 500), <<>>)
       ELSE Return(successResponse(ResponseData(rank, parsed.reasoning, count, generated)),
                   ClampLog(parsed.rank, count))

VARIABLES
    pc,            \* where the handler stands: start, an await, or responded
    request,       \* the request being handled
    sampleCount,   \* line 115
    samples,       \* line 149
    rankedSamples, \* line 234
    calls,         \* the stages whose generateText call was made, in order
    results,       \* the results those calls returned, in order
    response,      \* the response sent
    insertUserPrompt, \* line 251: the user prompt handed to the Insertion Judge
    log,           \* the clamping lines console.error has written (line 298)
    mapped,        \* the response data of the ranks mapped (MapperSpec only)
    vertexAI,      \* part_005 line 17: the module-level client handle
    model,         \* part_005 line 18: the module-level model handle
    inflight       \* the generateText call in flight, as it stands at its await

vars == <<pc, request, sampleCount, samples, rankedSamples, calls, results, response,
          insertUserPrompt, log, mapped, vertexAI, model, inflight>>

\* The module-level handles of part_005.
Handles == [vertexAI |-> vertexAI, model |-> model]

NoRequest == [bodyOk |-> FALSE, data |-> JUndefined]

Init ==
    /\ pc = "start"
    /\ request = NoRequest
    /\ sampleCount = JUndefined
    /\ samples = <<>>
    /\ rankedSamples = <<>>
    /\ calls = <<>>
    /\ results = <<>>
    /\ response = NoResponse
    /\ insertUserPrompt = <<>>
    /\ log = <<>>
    /\ mapped = <<>>
    /\ vertexAI = "null"
    /\ model = "null"
    /\ inflight = NoCall

\* The handler moves on as the outcome says.  A call it makes runs
\* generateText up to its await, initializeVertexAI included.
Proceed(o, env) ==
    /\ pc' = o.pc
    /\ response' = o.response
    /\ IF o.call = "none"
       THEN /\ calls' = calls
            /\ inflight' = NoCall
            /\ UNCHANGED <<vertexAI, model>>
       ELSE /\ calls' = Append(calls, o.call)
            /\ inflight' = Started(Handles, env)
            /\ vertexAI' = initializeVertexAI(Handles, env).vertexAI
            /\ model' = initializeVertexAI(Handles, env).model

\* The request arrives (line 102).
POST ==
    \E req \in Requests, env \in InitOutcomes :
        /\ pc = "start"
        /\ request' = req
        /\ Proceed(AfterRequest(req), env)
        /\ sampleCount' = AfterRequest(req).value
        /\ UNCHANGED <<samples, rankedSamples, results, insertUserPrompt, log, mapped>>

\* The Generator's call returns (line 137).
GenerateReturns ==
    \E remote \in RemoteOutcomes(GeneratorTexts), env \in InitOutcomes :
        LET generateResult == generateText(Met(inflight, remote)) IN
        /\ pc = "generating"
        /\ results' = Append(results, generateResult)
        /\ Proceed(AfterGenerate(generateResult), env)
        /\ samples' = AfterGenerate(generateResult).value
        /\ UNCHANGED <<request, sampleCount, rankedSamples, insertUserPrompt, log, mapped>>

\* The Ranker's call returns (line 193).
RankReturns ==
    \E remote \in RemoteOutcomes(RankerTexts), env \in InitOutcomes :
        LET rankResult == generateText(Met(inflight, remote)) IN
        /\ pc = "ranking"
        /\ results' = Append(results, rankResult)
        /\ Proceed(AfterRank(rankResult, samples), env)
        /\ rankedSamples' = AfterRank(rankResult, samples).value
        /\ insertUserPrompt' =
               IF AfterRank(rankResult, samples).call = "Insertion"
               THEN getInsertRankUserPrompt(Trim(Get(request.data, "topic").s),
                                            Trim(Get(request.data, "rubric").s),
                                            Trim(Get(request.data, "content").s),
                                            AfterRank(rankResult, samples).value)
               ELSE insertUserPrompt
        /\ UNCHANGED <<request, sampleCount, samples, log, mapped>>

\* The Insertion Judge's call returns (line 250).
InsertReturns ==
    \E remote \in RemoteOutcomes(InsertTexts) :
        LET insertResult == generateText(Met(inflight, remote)) IN
        /\ pc = "inserting"
        /\ results' = Append(results, insertResult)
        /\ Proceed(AfterInsert(insertResult, sampleCount, samples), "returns")
        /\ log' = log \o AfterInsert(insertResult, sampleCount, samples).value
        /\ UNCHANGED <<request, sampleCount, samples, rankedSamples, insertUserPrompt,
                       mapped>>

Next == POST \/ GenerateReturns \/ RankReturns \/ InsertReturns

Spec == Init /\ [][Next]_vars

(***************************************************************************)
(* The handler with its scheduling: a request that has arrived is handled, *)
(* but nothing makes a generateText call return.  generateText awaits      *)
(* model.generateContent without a timer (part_005 172-189) and the        *)
(* handler awaits generateText without one (lines 137, 196, 253).          *)
(***************************************************************************)
LiveSpec == Init /\ [][Next]_vars /\ WF_vars(POST)

(***************************************************************************)
(* The handler in a process that serves another request at the same time.  *)
(* The two requests share the module-level handles of part_005 and nothing *)
(* else; of the other request, each generateText call it makes is a step:  *)
(* it runs initializeVertexAI on the shared handles (line 162), at any     *)
(* point before this request has responded.                                *)
(***************************************************************************)
OtherCall ==
    \E env \in InitOutcomes :
        /\ pc \in {"start", "generating", "ranking", "inserting"}
        /\ vertexAI' = initializeVertexAI(Handles, env).vertexAI
        /\ model' = initializeVertexAI(Handles, env).model
        /\ UNCHANGED <<pc, request, sampleCount, samples, rankedSamples, calls, results,
                       response, insertUserPrompt, log, mapped, inflight>>

SharedNext == POST \/ GenerateReturns \/ RankReturns \/ InsertReturns \/ OtherCall

SharedSpec == Init /\ [][SharedNext]_vars

(***************************************************************************)
(* The score mapping on its own: lines 305-328 applied to the ranks 1, 2,  *)
(* ... of one corpus size, for every integer size the validation lets      *)
(* through and every integer rank the clamping leaves.  mapped holds the   *)
(* response data of the ranks mapped so far, the one of rank r at place r. *)
(***************************************************************************)
MapperInit ==
    /\ pc = "mapping"
    /\ request = NoRequest
    /\ sampleCount \in {JNum(Num(n)) : n \in MinSampleCount..MaxSampleCount}
    /\ samples = <<>>
    /\ rankedSamples = <<>>
    /\ calls = <<>>
    /\ results = <<>>
    /\ response = NoResponse
    /\ insertUserPrompt = <<>>
    /\ log = <<>>
    /\ mapped = <<>>
    /\ vertexAI = "null"
    /\ model = "null"
    /\ inflight = NoCall

MapRank ==
    /\ pc = "mapping"
    /\ Num(Len(mapped)) < sampleCount.n
    /\ mapped' = Append(mapped, ResponseData(JNum(Num(Len(mapped) + 1)), JStr(<<>>),
                                             sampleCount, <<>>))
    /\ UNCHANGED <<pc, request, sampleCount, samples, rankedSamples, calls, results,
                   response, insertUserPrompt, log, vertexAI, model, inflight>>

MapperNext == MapRank

MapperSpec == MapperInit /\ [][MapperNext]_vars

(***************************************************************************)
(* Properties of the handler and of the score mapping.                     *)
(***************************************************************************)
StageOrder == <<"Generator", "Ranker", "Insertion">>

Fields == {"topic", "content", "rubric"}

\* The response is sent / is a success / is a failure envelope without data.
Responded == pc = "responded"

Succeeded == Responded /\ response.body.success

Rejected == Responded /\ ~response.body.success /\ "data" \notin DOMAIN response.body

\* The result r of stage i (1 Generator, 2 Ranker, 3 Insertion) was received
\* with a text and that text parsed into what the stage expects.
StageParsed(i, r) ==
    /\ r.success
    /\ r.text # <<>>
    /\ CASE i = 1 -> ParseSamples(r.text).ok
         [] i = 2 -> ParseRankedIds(r.text).ok
         [] OTHER -> ParseInsertion(r.text).ok

\* A field that is missing, empty or white space only.
Blank(v) == v.t = "undefined" \/ (v.t = "string" /\ \A i \in 1..Len(v.s) : v.s[i].k = "ws")

\* An integer within [MinSampleCount, MaxSampleCount].
ValidCount(v) ==
    /\ v.t = "number"
    /\ IsInteger(v.n)
    /\ Num(MinSampleCount) <= v.n
    /\ v.n <= Num(MaxSampleCount)

\* The Insertion Judge has answered with a JSON object whose rank is a number.
Verdict == JSONParse(ExtractJson(results[3].text)).v

NumericVerdict ==
    /\ Len(results) = 3
    /\ results[3].success
    /\ JSONParse(ExtractJson(results[3].text)).ok
    /\ Get(Verdict, "rank").t = "number"

\* The reasoning of the verdict is absent, falsy or a string.
TextReasoning ==
    ~Truthy(Get(Verdict, "reasoning")) \/ TypeOf(Get(Verdict, "reasoning")) = "string"

\* max(1, min(n, raw))
Clamped(raw, n) == IF raw < Num(1) THEN Num(1) ELSE IF raw > n THEN n ELSE raw

\* round(a / b * k) in exact arithmetic, a half rounded up (a >= 0, b > 0).
RoundHalfUp(a, b, k) == (2 * a * k + b) \div (2 * b)

\* "<n>/25"
ScoreText(n) == JStr(<<NUM(Num(n)), P("/"), NUM(Num(MaxScore))>>)

\* The numerator of a score string.
Numerator(score) == score.s[1]

\* C1: the Text Judge calls of a request form a prefix of <Generator, Ranker,
\* Insertion> (each stage at most once, in order, at most three calls), and a
\* stage after the first is called only once the stage before it has returned
\* a result that was received and parsed successfully.
C1_CallsFormPrefix ==
    /\ Len(calls) <= Len(StageOrder)
    /\ calls = SubSeq(StageOrder, 1, Len(calls))
    /\ \A i \in 2..Len(calls) :
           /\ i - 1 <= Len(results)
           /\ StageParsed(i - 1, results[i - 1])

\* All three stages were called and the request succeeded.
C1_AllStagesCalled == Succeeded /\ calls = StageOrder /\ Len(results) = 3

\* C2: a request whose topic, content or rubric is missing, empty or white
\* space only gets a failure response, and no Text Judge call is made for it.
C2_BlankFieldRejected ==
    (pc # "start" /\ \E f \in Fields : Blank(Get(request.data, f)))
        => Rejected /\ calls = <<>>

\* A request with a white-space-only topic and the other fields given was
\* rejected without a call.
C2_BlankTopicRejected ==
    /\ Responded
    /\ request.bodyOk
    /\ Get(request.data, "topic") = JStr(<<WS>>)
    /\ ~Blank(Get(request.data, "content"))
    /\ ~Blank(Get(request.data, "rubric"))
    /\ response.status = 400
    /\ calls = <<>>

\* C3: a request that supplies a sampleCount which is not an integer within
\* [10, 100] is rejected with no Text Judge call, and every request for which
\* the Generator is called has an integer sampleCount within [10, 100].
C3_BadSampleCountRejected ==
    /\ (pc # "start" /\ Get(request.data, "sampleCount").t # "undefined"
                     /\ ~ValidCount(Get(request.data, "sampleCount")))
           => Rejected /\ calls = <<>>
    /\ calls # <<>> => ValidCount(sampleCount)

\* C4: when a stage fails (its result is no success, has no text, or does not
\* parse into what the stage expects) no later stage is called, and the
\* response is a failure envelope without score, rank or percentile.
C4_FailureHalts ==
    \A i \in 1..Len(results) :
        ~StageParsed(i, results[i]) => Len(calls) = i /\ Rejected

\* The Ranker's text did not parse and the request ended there.
C4_RankerFailureHalted ==
    /\ Len(results) = 2
    /\ results[2].success
    /\ ~ParseRankedIds(results[2].text).ok
    /\ calls = <<"Generator", "Ranker">>
    /\ Rejected

\* C5 (as stated): a numeric rank of the Insertion Judge is never rejected; the
\* request succeeds with rank max(1, min(N, raw)), N the sampleCount, so a rank
\* within [1, N] passes unchanged.
C5_NumericRankClamped ==
    (Responded /\ NumericVerdict /\ ToNumber(sampleCount).t = "number")
        => /\ Succeeded
           /\ response.body.data.rank
                  = JNum(Clamped(Get(Verdict, "rank").n, ToNumber(sampleCount).n))

\* C5 (amended): a numeric rank of the Insertion Judge that comes with a
\* reasoning that is absent, falsy or a string is never rejected; the request
\* succeeds with rank max(1, min(N, raw)), N the sampleCount.
C5_NumericRankWithTextReasoningClamped ==
    (Responded /\ NumericVerdict /\ TextReasoning /\ ToNumber(sampleCount).t = "number")
        => /\ Succeeded
           /\ response.body.data.rank
                  = JNum(Clamped(Get(Verdict, "rank").n, ToNumber(sampleCount).n))

\* A rank of 999 against 50 samples came back as 50.
C5_RankAboveCorpusClamped ==
    /\ Succeeded
    /\ NumericVerdict
    /\ Get(Verdict, "rank") = JNum(Num(999))
    /\ sampleCount = JNum(Num(50))
    /\ response.body.data.rank = JNum(Num(50))

\* C6: for every N in [10, 100] and every rank in [1, N] the score is
\* "<round(rank / N * 25)>/25" and the percentile is round(rank / N * 100),
\* a half rounded up.
C6_MappingIsRoundedRatio ==
    \A r \in 1..Len(mapped) :
        /\ mapped[r].score = ScoreText(RoundHalfUp(Num(r), sampleCount.n, MaxScore))
        /\ mapped[r].percentile
               = JNum(Num(RoundHalfUp(Num(r), sampleCount.n, PercentileScale)))

\* C7: for a fixed N and ranks r1 <= r2 within [1, N], neither the numerator of
\* the score nor the percentile of r1 exceeds that of r2.
C7_MappingMonotonic ==
    \A r1 \in 1..Len(mapped) : \A r2 \in r1..Len(mapped) :
        /\ Numerator(mapped[r1].score).k = "num"
        /\ Numerator(mapped[r2].score).k = "num"
        /\ Numerator(mapped[r1].score).n <= Numerator(mapped[r2].score).n
        /\ mapped[r1].percentile.t = "number"
        /\ mapped[r2].percentile.t = "number"
        /\ mapped[r1].percentile.n <= mapped[r2].percentile.n

\* All ranks of a corpus of 50 were mapped, from "1/25" up to "25/25".
C7_WholeCorpusMapped ==
    /\ sampleCount = JNum(Num(50))
    /\ Len(mapped) = 50
    /\ mapped[1].score = ScoreText(1)
    /\ mapped[50].score = ScoreText(MaxScore)
    /\ mapped[1].percentile.n < mapped[50].percentile.n

\* C8: in every success response 1 <= rank <= totalSamples, totalSamples is
\* the sampleCount of the request (50 when it gave none), and the score is
\* "<round(rank / totalSamples * 25)>/25".
C8_SuccessResponseConsistent ==
    Succeeded =>
        LET data  == response.body.data
            given == Get(request.data, "sampleCount")
        IN /\ data.rank.t = "number"
           /\ data.totalSamples.t = "number"
           /\ Num(1) <= data.rank.n
           /\ data.rank.n <= data.totalSamples.n
           /\ data.totalSamples
                  = (IF given.t = "undefined" THEN JNum(Num(DefaultSampleCount)) ELSE given)
           /\ data.score = ScoreText(RoundHalfUp(data.rank.n, data.totalSamples.n, MaxScore))

\* C9: in every success response the percentile is an integer within [0, 100]
\* and the numerator of the score is an integer within [0, 25].
C9_SuccessResponseBounded ==
    Succeeded =>
        LET data == response.body.data
        IN /\ data.percentile.t = "number"
           /\ IsInteger(data.percentile.n)
           /\ 0 <= data.percentile.n
           /\ data.percentile.n <= Num(PercentileScale)
           /\ Numerator(data.score).k = "num"
           /\ IsInteger(Numerator(data.score).n)
           /\ 0 <= Numerator(data.score).n
           /\ Numerator(data.score).n <= Num(MaxScore)

\* C10: the rank of every success response is an integer.
C10_RankIsInteger ==
    Succeeded => response.body.data.rank.t = "number" /\ IsInteger(response.body.data.rank.n)

\* The stage whose call has not returned yet.
Awaiting == pc \in {"generating", "ranking", "inserting"}

\* The sampleCount of the request is a number, or a string that reads as one.
NumericCount == ToNumber(sampleCount).t = "number"

\* The Generator's text (as line 161 parses it) has a non-empty samples array.
HasSamples(text) ==
    LET parsed == JSONParse(Sanitize(text))
    IN /\ parsed.ok
       /\ Get(parsed.v, "samples").t = "array"
       /\ Get(parsed.v, "samples").a # <<>>

\* The Ranker's text (as line 212 parses it) has a rankedIds array.
HasRankedIds(text) ==
    LET parsed == JSONParse(ExtractJson(text))
    IN parsed.ok /\ Get(parsed.v, "rankedIds").t = "array"

\* The Insertion Judge's text (as line 270 parses it) has a numeric rank.
HasNumericRank(text) ==
    LET parsed == JSONParse(ExtractJson(text))
    IN parsed.ok /\ Get(parsed.v, "rank").t = "number"

\* The messages and codes of a failure response that name a stage.
StageMessages ==
    {"request body must be JSON", "missing required fields",
     "topic, content or rubric is empty", "sampleCount must be 10-100",
     "cannot generate the samples", "cannot parse the samples",
     "cannot rank the samples", "cannot parse the ranking",
     "cannot place the essay", "cannot parse the rank"}

\* A well-formed verdict of the Insertion Judge.
FairVerdictText == InsertText(Num(25), Str(<<W("fair")>>))

\* C11: when the Generation stage succeeds for a request with sampleCount N,
\* the accepted sample list has exactly N elements and their ids are pairwise
\* distinct.
C11_GeneratedCorpusHasNDistinctIds ==
    Len(calls) >= 2 =>
        /\ NumericCount
        /\ Num(Len(samples)) = ToNumber(sampleCount).n
        /\ \A i, j \in 1..Len(samples) :
               i # j => Get(samples[i], "id") # Get(samples[j], "id")

\* C12: when the Ranking stage succeeds (the Insertion Judge is called), the
\* accepted rankedIds is a permutation of the generated sample ids: as many
\* ids as samples, the same set of ids, none twice.
C12_RankedIdsArePermutation ==
    Len(calls) = 3 =>
        /\ Len(rankedSamples) = Len(samples)
        /\ {rankedSamples[i].id : i \in 1..Len(rankedSamples)}
               = {Get(samples[i], "id") : i \in 1..Len(samples)}
        /\ \A i, j \in 1..Len(rankedSamples) :
               i # j => rankedSamples[i].id # rankedSamples[j].id

\* C13: a Generator response without a non-empty samples array, a Ranker
\* response without a rankedIds array and an Insertion Judge response without
\* a numeric rank each end the request in a failure response, with no later
\* stage called and no default put in its place.
C13_MissingStructureFails ==
    /\ (Len(results) >= 1 /\ results[1].success /\ ~HasSamples(results[1].text))
           => Rejected /\ Len(calls) = 1
    /\ (Len(results) >= 2 /\ results[2].success /\ ~HasRankedIds(results[2].text))
           => Rejected /\ Len(calls) = 2
    /\ (Len(results) >= 3 /\ results[3].success /\ ~HasNumericRank(results[3].text))
           => Rejected

\* The Insertion Judge answered without a rank and the request failed.
C13_VerdictWithoutRankFailed ==
    /\ Len(results) = 3
    /\ results[3].text = ObjText(<<KV("reasoning", Str(<<W("fair")>>))>>)
    /\ Rejected
    /\ response.status = 500

\* C14: every failure response names the stage that failed (validation,
\* generation, ranking or insertion), whether the failure is an upstream
\* failure, a parse failure or an exception.
C14_FailureNamesStage ==
    Rejected => response.body.error \in StageMessages \/ response.body.error_code # ""

\* C15: a Generator response that is a valid object with a non-empty samples
\* array wrapped in a markdown fence, or with a comma before its closing
\* brace, is parsed and the Ranker is called with the samples of that object.
C15_FencedGeneratorTextAccepted ==
    \A clean \in {SamplesText(FullIds), CodeSampleText} :
        (Len(results) >= 1 /\ results[1].text \in {Fenced(clean), WithTrailingComma(clean)})
            => /\ Len(calls) >= 2
               /\ samples = Get(JSONParse(clean).v, "samples").a

\* C16: a Ranker or Insertion Judge response that is valid except for a
\* markdown fence or a comma before its closing brace is accepted like the
\* Generator's.
C16_FencedRankerAndVerdictAccepted ==
    /\ (/\ Len(results) >= 2
        /\ results[1].text = SamplesText(FullIds)
        /\ results[2].text \in {Fenced(RankedText(FullIds)),
                                WithTrailingComma(RankedText(FullIds))})
           => Len(calls) = 3
    /\ (/\ Len(results) = 3
        /\ results[3].text \in {Fenced(FairVerdictText), WithTrailingComma(FairVerdictText)})
           => Succeeded

\* C17: the user prompt handed to the Insertion Judge never carries the ids
\* the Generator gave the samples (no ID label).
C17_InsertionPromptHidesIds ==
    \A i \in 1..Len(insertUserPrompt) : insertUserPrompt[i] # W("ID")

\* C18 (as stated): a clamping line is logged for a request exactly when the
\* raw rank of the Insertion Judge was outside [1, N].
C18_ClampLoggedIffOutOfRange ==
    NumericCount =>
        (log # <<>>
            <=> /\ Responded
                /\ NumericVerdict
                /\ \/ Get(Verdict, "rank").n < Num(1)
                   \/ Get(Verdict, "rank").n > ToNumber(sampleCount).n)

\* C18 (amended): a clamping line is logged for a request exactly when the
\* verdict of the Insertion Judge was accepted (a numeric rank with a reasoning
\* that is absent, falsy or a string) and its raw rank was outside [1, N].
C18_ClampLoggedIffAcceptedOutOfRange ==
    NumericCount =>
        (log # <<>>
            <=> /\ Responded
                /\ NumericVerdict
                /\ TextReasoning
                /\ \/ Get(Verdict, "rank").n < Num(1)
                   \/ Get(Verdict, "rank").n > ToNumber(sampleCount).n)

\* A raw rank of 51 against 50 samples came back as 50 with a clamping line.
C18_ClampOf51Logged ==
    /\ Succeeded
    /\ NumericVerdict
    /\ Get(Verdict, "rank") = JNum(Num(51))
    /\ sampleCount = JNum(Num(50))
    /\ response.body.data.rank = JNum(Num(50))
    /\ log = <<"rank out of range">>

\* C19 (as stated): once the Insertion Judge's response is received and
\* carries a numeric rank, the request ends with a success response.
C19_NumericVerdictSucceeds ==
    (Len(results) = 3 /\ NumericVerdict) => Succeeded /\ response.status = 200

\* C19 (amended): once the Insertion Judge's response is received and carries
\* a numeric rank and a reasoning that is absent, falsy or a string, the
\* request ends with a success response, whatever the rank and the sampleCount.
C19_AcceptedVerdictSucceeds ==
    (Len(results) = 3 /\ NumericVerdict /\ TextReasoning)
        => Succeeded /\ response.status = 200

\* A rank of 0 against a sampleCount that is no number: the mapping gives NaN
\* and the request still succeeds.
C19_SucceededWithoutANumber ==
    /\ Succeeded
    /\ NumericVerdict
    /\ Get(Verdict, "rank") = JNum(0)
    /\ ~NumericCount
    /\ response.body.data.percentile = JNaN

\* C20: a request whose Text Judge call does not return still leaves that
\* stage (a timeout fails it): a request that awaits a call eventually awaits
\* it no more.
C20_HungCallTimesOut == Awaiting ~> ~Awaiting

(***************************************************************************)
(* The Text Judge and its client.                                          *)
(***************************************************************************)
\* The handles of a module just loaded.
FreshHandles == [vertexAI |-> "null", model |-> "null"]

\* The texts the judge of the i-th call of a request may answer with.
StageTexts(i) == <<GeneratorTexts, RankerTexts, InsertTexts>>[i]

\* The results the i-th generateText call of a request can have when no other
\* request runs: the first call initializes the client itself, a later call
\* finds the client its first call has built.
AloneResults(i) ==
    IF i = 1
    THEN {generateText(Met(Started(FreshHandles, env), remote)) :
              env \in InitOutcomes, remote \in RemoteOutcomes(StageTexts(i))}
    ELSE {generateText(remote) : remote \in RemoteOutcomes(StageTexts(i))}

\* C21: two requests share no mutable state: whatever the other request does
\* between this request's awaits, each result this request gets from a judge
\* call is one its own input and its own calls can produce with no other
\* request running.
C21_OutcomeAsIfAlone ==
    \A i \in 1..Len(results) : results[i] \in AloneResults(i)

\* C22: generateText never throws to its caller: every call returns a value
\* whose success is TRUE exactly when it carries a text that is not empty, and
\* an exception in the client initialization or in the remote call gives
\* success FALSE with an error message.
C22_ResultIsAValue ==
    [][Len(results') = Len(results) + 1 =>
          LET r == results'[Len(results')] IN
          /\ DOMAIN r = {"success", "text", "error"}
          /\ r.success <=> r.text # <<>>
          /\ r.success => r.error = ""
          /\ ~r.success => r.error # ""
          /\ inflight.kind = "throw" => ~r.success /\ r.error = inflight.message]_vars

\* C22 witness: the constructor of the client threw in the Generator's call, and
\* the call returned a failure value that carries the message; the handler
\* answered with it.
C22_InitFailureReturned ==
    /\ results = <<[success |-> FALSE, text |-> <<>>,
                    error |-> "cannot construct the client"]>>
    /\ Rejected
    /\ response.body.error = "cannot construct the client"

(***************************************************************************)
(* The reference corpus of the Insertion Judge, the status codes.          *)
(***************************************************************************)
\* The rankedIds the handler has read in the Ranker's text (line 212).
RankedIdsAccepted == ParseRankedIds(results[2].text).rankedIds

\* Some generated sample has that id.
Generated(id) == \E k \in 1..Len(samples) : StrictEq(Get(samples[k], "id"), id)

\* The places of the rank labels in the user prompt of the Insertion Judge,
\* in increasing order.
LabelPlaces ==
    LET at == {k \in 1..Len(insertUserPrompt) : insertUserPrompt[k] = W("rank")}
        RECURSIVE Sorted(_)
        Sorted(S) == IF S = {} THEN <<>> ELSE <<Min(S)>> \o Sorted(S \ {Min(S)})
    IN Sorted(at)

\* The place where the i-th reference of the user prompt ends: before the
\* separator and the bracket of the next label, or at the end of the prompt.
EntryEnd(i) ==
    IF i < Len(LabelPlaces) THEN LabelPlaces[i + 1] - 5 ELSE Len(insertUserPrompt)

\* The number the text states after the word.
NumberAfter(text, word) ==
    LET w == Min({k \in 1..Len(text) : text[k] = W(word)})
    IN text[Min({k \in w..Len(text) : text[k].k = "num"})].n

\* C23: the reference list handed to the Insertion Judge keeps the Ranker's
\* order: it has one entry for each position i of rankedIds, labelled rank i,
\* with the content of the generated sample whose id is rankedIds[i], and the
\* user prompt shows the entries in that order under those labels.
C23_ReferencesInRankerOrder ==
    Len(calls) = 3 =>
        /\ Len(rankedSamples) = Len(RankedIdsAccepted)
        /\ Len(LabelPlaces) = Len(RankedIdsAccepted)
        /\ \A i \in 1..Len(rankedSamples) :
              /\ rankedSamples[i].rank = i
              /\ rankedSamples[i].content
                     = Get(FindSample(samples, RankedIdsAccepted[i]), "content")
              /\ insertUserPrompt[LabelPlaces[i] + 3] = NUM(Num(i))
              /\ LET c == ValueText(Get(FindSample(samples, RankedIdsAccepted[i]), "content"))
                 IN SubSeq(insertUserPrompt, EntryEnd(i) - Len(c) + 1, EntryEnd(i)) = c

\* C23 witness: the Ranker put sample 2 before sample 1 and the Insertion Judge
\* was shown the essay of sample 2 under rank 1 and that of sample 1 under
\* rank 2.
C23_ReversedOrderShown ==
    /\ Len(calls) = 3
    /\ RankedIdsAccepted = <<JNum(Num(2)), JNum(Num(1))>>
    /\ Len(rankedSamples) = 2
    /\ rankedSamples[1].content = JStr(Essay(2))
    /\ rankedSamples[2].content = JStr(Essay(1))

\* C24: a rankedIds with an id that no generated sample has ends the request
\* in a failure response with no call of the Insertion Judge; so every
\* reference the Insertion Judge is shown is the content of a sample the
\* Generator produced in this request.
C24_UnknownIdFails ==
    /\ (/\ Len(results) >= 2
        /\ ~JudgeFailed(results[2])
        /\ ParseRankedIds(results[2].text).ok
        /\ \E i \in 1..Len(RankedIdsAccepted) : ~Generated(RankedIdsAccepted[i]))
           => Rejected /\ calls = <<"Generator", "Ranker">>
    /\ Len(calls) = 3 =>
           \A i \in 1..Len(rankedSamples) :
               \E k \in 1..Len(samples) :
                   rankedSamples[i].content = Get(samples[k], "content")

\* C24 witness: the Ranker named an id that no sample has, and the request
\* failed before the Insertion stage.
C24_UnknownIdFailed ==
    /\ Len(results) = 2
    /\ ParseRankedIds(results[2].text).ok
    /\ \E i \in 1..Len(RankedIdsAccepted) : ~Generated(RankedIdsAccepted[i])
    /\ Rejected
    /\ response.status = 500
    /\ calls = <<"Generator", "Ranker">>

\* C25: the Insertion Judge is never called with an empty reference corpus: a
\* Ranker response whose rankedIds is an empty array does not let the request
\* reach the Insertion stage.
C25_EmptyRankingHalts ==
    /\ (/\ Len(results) >= 2
        /\ ParseRankedIds(results[2].text).ok
        /\ RankedIdsAccepted = <<>>) => Len(calls) = 2
    /\ Len(calls) = 3 => rankedSamples # <<>>

\* C26: in a success response totalSamples equals
\* scoreDetails.generatedSamples and equals the number of references the
\* Insertion Judge was shown.
C26_CorpusSizeConsistent ==
    Succeeded =>
        /\ ToNumber(response.body.data.totalSamples)
              = response.body.data.scoreDetails.generatedSamples
        /\ ToNumber(response.body.data.totalSamples) = JNum(Num(Len(rankedSamples)))

\* C27: the corpus size and the best rank the system prompt of the Insertion
\* Judge states (the prompt line 250 builds) equal the request's sampleCount,
\* the bound its answer is clamped to.
C27_PromptRangeIsClampRange ==
    Len(calls) = 3 =>
        /\ JNum(NumberAfter(getInsertRankPrompt, "references")) = ToNumber(sampleCount)
        /\ JNum(NumberAfter(getInsertRankPrompt, "best")) = ToNumber(sampleCount)

\* The text is a JSON object as it stands, without a fence, and its samples
\* are a list that is not empty.
CleanSamplesText(text) ==
    /\ \A i \in 1..Len(text) : text[i] # FENCE
    /\ JSONParse(text).ok
    /\ Get(JSONParse(text).v, "samples").t = "array"
    /\ Get(JSONParse(text).v, "samples").a # <<>>

\* C28: for a Generator text that is a clean JSON object, the samples the
\* handler reads after the fence and trailing-comma removal are the samples
\* of the text parsed as it stands: same ids, targetScores and contents.
C28_SanitizeKeepsCleanSamples ==
    (Len(results) >= 1 /\ results[1].success /\ CleanSamplesText(results[1].text))
        => /\ ParseSamples(results[1].text).ok
           /\ ParseSamples(results[1].text).samples
                 = Get(JSONParse(results[1].text).v, "samples").a

\* C29: a request refused before the first judge call is answered with
\* status 400, and a failure at or after the first judge call with status 500.
C29_StatusSeparatesErrors ==
    Rejected => /\ calls = <<>> => response.status = 400
                /\ calls # <<>> => response.status = 500

\* C30: the client is never left half-initialized: after any sequence of
\* generateText calls, those in which the initialization threw included, the
\* vertexAI handle is set only if the model handle is set, and once both are
\* set no call changes them.
C30_HandlesSetTogether ==
    /\ vertexAI # "null" => model # "null"
    /\ inflight.kind = "pending" => vertexAI # "null" /\ model # "null"

====
